---- MODULE Spec2Model ----
(***************************************************************************)
(* Model of bushfire_hazard: the vegetation physical model of              *)
(* vegetation/vegetation.py (class Vegetation) and vegetation/forest.py    *)
(* (ForestWoodland, Forest, Woodland).                                     *)
(*                                                                         *)
(* Numbers.  Python floats are modelled in fixed point, or as the          *)
(* non-finite value NaN:                                                   *)
(*   rate of spread, flame length      1e-4 (m/unit 1e-4)                  *)
(*   distances and heights passed in   centimetres                         *)
(*   lengths of the geometry           1e-6 m                              *)
(*   angles                            1e-6 rad                            *)
(*   sin, cos, tan, ratios, phi, tau   1e-6                                *)
(*   radiant heat flux                 1e-3 kW/m^2                         *)
(*   site_slope                        tenths of a radian                  *)
(*   fire danger index                 whole numbers                       *)
(* All integer arithmetic stays inside 32 bits.                            *)
(*                                                                         *)
(* Memoisation.  vegetation.py:20-21 builds `memo = Memoizer(store)` over  *)
(* the module-level dict `store`; `@property @memo` wraps flame_length and *)
(* rate_of_spread.  The memoizer's key is the string                       *)
(*   "<module>.<function name>(<repr of each argument>)"                   *)
(* and the only argument is self, whose default repr is                    *)
(*   "<module.Class object at 0xADDRESS>".                                 *)
(* A key is therefore (function name, class, address), the dict is never   *)
(* pruned, and the address of a discarded instance can be handed to a      *)
(* later one.                                                              *)
(***************************************************************************)
EXTENDS Integers, Sequences, FiniteSets, TLC

VARIABLES
    insts,      \* live instances: id -> [cls, addr, site_slope, receiver_height, fdi]
    store,      \* the module-level dict `store`: key -> [val, owner]
    nextId,     \* ids are given in construction order; an id is never reused
    evals,      \* per id: how often each formula was evaluated for the instance
    reads,      \* per id: whether flame_length was read (by the caller or a method)
    lastOp      \* the last call made by the caller, its arguments and its outcome

vars == <<insts, store, nextId, evals, reads, lastOp>>

-----------------------------------------------------------------------------
\* Bounds of the model.

\* instances constructed in one run
MaxInst == 2
\* longest array of separation distances
MaxLen == 2
\* evaluation counters saturate here (0, 1, "more than once")
EvalCap == 2

-----------------------------------------------------------------------------
\* Floating point values: a finite fixed-point number, or NaN.

Fin(v) == [k |-> "fin", v |-> v]
NaN == [k |-> "nan", v |-> 0]
IsFinite(x) == x.k = "fin"

Abs(a) == IF a < 0 THEN -a ELSE a
Sgn(a) == IF a < 0 THEN -1 ELSE IF a > 0 THEN 1 ELSE 0
\* a / b rounded toward zero, b # 0
Div(a, b) == Sgn(a) * Sgn(b) * (Abs(a) \div Abs(b))
Min(a, b) == IF a < b THEN a ELSE b

-----------------------------------------------------------------------------
\* Class attributes of Vegetation (vegetation.py:27-33).

\* 0.95, in 1e-2
flame_emissivity == 95
\* 5.67e-11 kW/m^2K^4, in 1e-13
sigma == 567
\* K
flame_temperature == 1200
\* 100 m, in cm
flame_width == 10000
\* K
ambient_temperature == 308
\* 0.25, in 1e-2
relative_humidity == 25

\* The species variants of forest.py:53-74 (t/ha).
Classes == {"Forest", "Woodland"}
overall_fuel_load(cls) == IF cls = "Forest" THEN 35 ELSE 25
surface_fuel_load(cls) == IF cls = "Forest" THEN 25 ELSE 15

-----------------------------------------------------------------------------
\* Inputs the callers are given to choose from.

\* The models a caller constructs: (class, site_slope, receiver_height in cm,
\* fdi).  The first is the scenario Forest, slope 0, height 0, fdi 50; the
\* others bring a negative slope, a negative height, a non-finite fdi.
Models ==
    { <<"Forest", 0, 0, Fin(50)>>, <<"Forest", -2, -100, Fin(100)>>,
      <<"Woodland", 2, 200, NaN>> }

\* separation distances, cm: 3 m (less than half the flame length of every
\* finite model here) and 20 m
Distances == {300, 2000}

\* the addresses the allocator hands out
Addrs == {1, 2}
Ids == 1..MaxInst

\* exp(0.069 * site_slope), in 1e-4
ExpTab(s) == CASE s = -2 -> 9863 [] s = 0 -> 10000 [] s = 2 -> 10139
\* np.tan(site_slope), in 1e-6
TanTab(s) == CASE s = -2 -> -202710 [] s = 0 -> 0 [] s = 2 -> 202710

-----------------------------------------------------------------------------
\* Construction (forest.py:24-26, vegetation.py:35-42): the three arguments
\* are stored as given; nothing is checked and nothing is raised.

ForestWoodlandInit(cls, site_slope, receiver_height, fdi, addr) ==
    [out |-> "ok",
     inst |-> [cls |-> cls, addr |-> addr, site_slope |-> site_slope,
               receiver_height |-> receiver_height, fdi |-> fdi]]

-----------------------------------------------------------------------------
\* The formulas of forest.py.

\* _rate_of_spread (forest.py:45-50):
\*   0.0012 * fdi * surface_fuel_load * exp(0.069 * site_slope)
RateOfSpreadFormula(inst) ==
    IF IsFinite(inst.fdi)
    THEN Fin(Div(12 * inst.fdi.v * surface_fuel_load(inst.cls) * ExpTab(inst.site_slope),
                 10000))
    ELSE inst.fdi

\* _flame_length (forest.py:28-43), given the value self.rate_of_spread
\* returned:  (13 * rate_of_spread + 0.24 * overall_fuel_load) / 2
FlameLengthFormula(inst, ros) ==
    IF IsFinite(ros)
    THEN Fin(Div(13 * ros.v + 2400 * overall_fuel_load(inst.cls), 2))
    ELSE ros

-----------------------------------------------------------------------------
\* The memoizer.  A memo state m is [store, ev]: the dict and the log of
\* formula evaluations and dict writes made so far in the running call.  A
\* read returns [val, owner, store, ev]: the value, the instance whose
\* evaluation produced it, and the memo state after the read.

\* '%s.%s(%r)' of the wrapped function and self
Key(name, inst) == [name |-> name, cls |-> inst.cls, addr |-> inst.addr]

\* A lookup that never finds its key (a memoizer whose keys never repeat):
\* the variant against which at-most-once evaluation is told apart.
MemoHitNever(st, key) == FALSE

\* store.get(key) is not None
MemoHit(st, key) == key \in DOMAIN st

\* store[key] = value
MemoSet(st, key, val, id) == (key :> [val |-> val, owner |-> id]) @@ st

\* the memo state a read left behind
After(r) == [store |-> r.store, ev |-> r.ev]

\* Vegetation.rate_of_spread (vegetation.py:59-62) under @memo
ReadRos(m, id, inst) ==
    IF MemoHit(m.store, Key("rate_of_spread", inst))
    THEN [val |-> m.store[Key("rate_of_spread", inst)].val,
          owner |-> m.store[Key("rate_of_spread", inst)].owner,
          store |-> m.store, ev |-> m.ev]
    ELSE [val |-> RateOfSpreadFormula(inst), owner |-> id,
          store |-> MemoSet(m.store, Key("rate_of_spread", inst),
                            RateOfSpreadFormula(inst), id),
          ev |-> m.ev \o <<"call:_rate_of_spread", "store:rate_of_spread">>]

\* the rest of a flame_length miss, once _flame_length's read r of
\* self.rate_of_spread has returned
FlameLengthMiss(r, id, inst) ==
    [val |-> FlameLengthFormula(inst, r.val), owner |-> id,
     store |-> MemoSet(r.store, Key("flame_length", inst),
                       FlameLengthFormula(inst, r.val), id),
     ev |-> r.ev \o <<"store:flame_length">>]

\* Vegetation.flame_length (vegetation.py:49-52) under @memo; _flame_length
\* reads self.rate_of_spread while it runs.
ReadFl(m, id, inst) ==
    IF MemoHit(m.store, Key("flame_length", inst))
    THEN [val |-> m.store[Key("flame_length", inst)].val,
          owner |-> m.store[Key("flame_length", inst)].owner,
          store |-> m.store, ev |-> m.ev]
    ELSE FlameLengthMiss(
            ReadRos([store |-> m.store, ev |-> m.ev \o <<"call:_flame_length">>],
                    id, inst),
            id, inst)

Count(ev, e) == Cardinality({i \in 1..Len(ev) : ev[i] = e})

\* the evaluation counters after a call on `id` that logged `ev`
Bump(id, ev) ==
    [evals EXCEPT
        ![id].fl = Min(EvalCap, @ + Count(ev, "call:_flame_length")),
        ![id].ros = Min(EvalCap, @ + Count(ev, "call:_rate_of_spread"))]

-----------------------------------------------------------------------------
\* Fixed-point arithmetic of the geometry, in 1e-6.  Every intermediate value
\* stays inside 32 bits.

\* 1.0
One == 1000000
\* np.pi, pi / 2 and pi / 4
Pi == 3141593
HalfPi == 1570796
QuarterPi == 785398

Max(a, b) == IF a > b THEN a ELSE b

\* a * b / 1e6 for a, b >= 0, by halves of three digits
MulU(a, b) ==
    (a \div 1000) * (b \div 1000)
        + ((a \div 1000) * (b % 1000) + (a % 1000) * (b \div 1000)
            + ((a % 1000) * (b % 1000)) \div 1000) \div 1000
\* the product of two fixed-point numbers
Mul(a, b) == Sgn(a) * Sgn(b) * MulU(Abs(a), Abs(b))

\* long division: n more decimal digits of the quotient q, remainder r
RECURSIVE DivDigits(_, _, _, _)
DivDigits(q, r, b, n) ==
    IF n = 0 THEN q ELSE DivDigits(q * 10 + (r * 10) \div b, (r * 10) % b, b, n - 1)
\* a * 1e6 / b for a >= 0, b > 0
DivU(a, b) == DivDigits(a \div b, a % b, b, 6)
\* the quotient of two fixed-point numbers, b # 0
Quot(a, b) == Sgn(a) * Sgn(b) * DivU(Abs(a), Abs(b))

\* np.sin and np.cos on [0, pi/4], by their series
SinSeries(x, x2) ==
    Mul(x, One - Mul(x2 \div 6, One - Mul(x2 \div 20, One - Mul(x2 \div 42,
                                                               One - x2 \div 72))))
CosSeries(x2) ==
    One - Mul(x2 \div 2, One - Mul(x2 \div 12, One - Mul(x2 \div 30, One - x2 \div 56)))
SinOct(x) == SinSeries(x, Mul(x, x))
CosOct(x) == CosSeries(Mul(x, x))
\* on [0, pi/2]
SinQuad(x) == IF x <= QuarterPi THEN SinOct(x) ELSE CosOct(HalfPi - x)
CosQuad(x) == IF x <= QuarterPi THEN CosOct(x) ELSE SinOct(HalfPi - x)
\* np.sin(angle), np.cos(angle) for an angle in [0, pi], in 1e-6 rad
Sin(x) == IF x <= HalfPi THEN SinQuad(x) ELSE SinQuad(Pi - x)
Cos(x) == IF x <= HalfPi THEN CosQuad(x) ELSE -CosQuad(Pi - x)

\* np.arctan on [0, tan(pi/8)], by its series
ArcTanSeries(t, t2) ==
    Mul(t, One - Mul(t2, 333333 - Mul(t2, 200000 - Mul(t2, 142857 - Mul(t2,
                        111111 - Mul(t2, 90909 - Mul(t2, 76923)))))))
\* on [0, 1]:  arctan(t) = pi/4 - arctan((1 - t) / (1 + t))
ArcTanFold(u) == QuarterPi - ArcTanSeries(u, Mul(u, u))
ArcTanUnit(t) ==
    IF t <= 414214 THEN ArcTanSeries(t, Mul(t, t)) ELSE ArcTanFold(Quot(One - t, One + t))
\* np.arctan(b / h) for h > 0:  arctan(w) = pi/2 - arctan(1 / w) for w > 1
ArcTan(b, h) ==
    IF Abs(b) <= h
    THEN Sgn(b) * ArcTanUnit(DivU(Abs(b), h))
    ELSE Sgn(b) * (HalfPi - ArcTanUnit(DivU(h, Abs(b))))

\* np.sqrt on [1, 2], by Newton's iteration
RECURSIVE SqrtIter(_, _, _)
SqrtIter(v, y, n) == IF n = 0 THEN y ELSE SqrtIter(v, (y + DivU(v, y)) \div 2, n - 1)
Sqrt(v) == SqrtIter(v, (One + v) \div 2, 4)

\* sqrt(m^2 + s^2) for m >= s >= 0:  m * sqrt(1 + (s/m)^2)
HypotOf(m, t) == MulU(m, Sqrt(One + MulU(t, t)))
Hypot(p, a) ==
    IF p = 0 /\ a = 0 THEN 0
    ELSE HypotOf(Max(Abs(p), Abs(a)), DivU(Min(Abs(p), Abs(a)), Max(Abs(p), Abs(a))))

\* x / sqrt(1 + x^2) * arctan(y / sqrt(1 + x^2))  for x = a / p, y = b / p,
\* p # 0.  With h = sqrt(p^2 + a^2):  x / sqrt(1 + x^2) = sgn(p) * a / h and
\* y / sqrt(1 + x^2) = sgn(p) * b / h.
TermOf(a, b, p, h) == Mul(Sgn(p) * Quot(a, h), ArcTan(Sgn(p) * b, h))
Term(a, b, p) == TermOf(a, b, p, Hypot(p, a))

\* flame length in cm, and in 1e-6 m
Cm(fl) == Div(fl.v, 100)
Um(fl) == fl.v * 100
\* a length given in cm, in 1e-6 m
CmToUm(c) == c * 10000

-----------------------------------------------------------------------------
\* _view_factor_calc (vegetation.py:100-133) at angle x (1e-6 rad) and
\* separation distance d (cm).

\* line 106: separation_distance - 0.5 * self.flame_length * np.cos(angle),
\* in 1e-6 m
ViewPathLength(d, L, x) == CmToUm(d) - Div(Mul(L, Cos(x)), 2)

\* numerator of x_1 (line 108) and of x_2 (lines 113-115)
X1Numerator(L2, L3, tanS, h, d, x) ==
    Mul(L2, Sin(x)) - Mul(Div(Mul(L3, Cos(x)), 2), tanS) - Mul(CmToUm(d), tanS) - h
X2Numerator(tanS, h, p) == h + Mul(p, tanS)

\* lines 127-132 times pi, given the numerators of x_1 and x_2, the
\* numerator hw of y_1 = y_2 and the path length
ViewFactorSum(n1, n2, hw, p) ==
    Term(n1, hw, p) + Term(hw, n1, p) + Term(n2, hw, p) + Term(hw, n2, p)

ViewFactorGeometry(L2, L3, tanS, h, d, x, p) ==
    [p |-> p,
     phi |-> IF p = 0 THEN 0
             ELSE Quot(ViewFactorSum(X1Numerator(L2, L3, tanS, h, d, x),
                                     X2Numerator(tanS, h, p),
                                     Div(CmToUm(flame_width), 2), p),
                       Pi)]

\* lines 106-133 for finite flame lengths: L1 is the flame length read on
\* line 106, L2 and L3 the two read on line 108 (1e-6 m).  [p, phi]: the
\* path length and phi.
ViewFactorFormula(L1, L2, L3, site_slope, receiver_height, x, d) ==
    ViewFactorGeometry(L2, L3, TanTab(site_slope), CmToUm(receiver_height), d, x,
                       ViewPathLength(d, L1, x))

\* _view_factor_calc once its three reads of self.flame_length have returned.
\* A non-finite flame length, or a path length of exactly zero (every ratio
\* is then +-inf or nan), gives nan; nothing is raised.
ViewFactorCalcOf(r1, r2, r3, inst, x, d) ==
    IF IsFinite(r1.val) /\ IsFinite(r2.val) /\ IsFinite(r3.val)
    THEN [g |-> ViewFactorFormula(Um(r1.val), Um(r2.val), Um(r3.val), inst.site_slope,
                                  inst.receiver_height, x, d),
          store |-> r3.store, ev |-> r3.ev]
    ELSE [g |-> [p |-> 0, phi |-> 0], store |-> r3.store, ev |-> r3.ev]

ViewFactorCalc3(r1, r2, r3, c) ==
    [phi |-> IF IsFinite(r1.val) /\ IsFinite(r2.val) /\ IsFinite(r3.val) /\ c.g.p # 0
             THEN Fin(c.g.phi) ELSE NaN,
     p |-> IF IsFinite(r1.val) /\ IsFinite(r2.val) /\ IsFinite(r3.val)
           THEN Fin(c.g.p) ELSE NaN,
     store |-> c.store, ev |-> c.ev]

ViewFactorCalc2(r1, r2, r3, inst, x, d) ==
    ViewFactorCalc3(r1, r2, r3, ViewFactorCalcOf(r1, r2, r3, inst, x, d))

ViewFactorCalc1(r1, r2, id, inst, x, d) ==
    ViewFactorCalc2(r1, r2, ReadFl(After(r2), id, inst), inst, x, d)

\* _view_factor_calc: self.flame_length is read once on line 106 and twice
\* on line 108.
ViewFactorCalcRead(r1, id, inst, x, d) ==
    ViewFactorCalc1(r1, ReadFl(After(r1), id, inst), id, inst, x, d)
ViewFactorCalc(m, id, inst, x, d) ==
    ViewFactorCalcRead(ReadFl(m, id, inst), id, inst, x, d)

-----------------------------------------------------------------------------
\* scipy.optimize.minimize_scalar(f, bounds=(0, pi), method='bounded')
\* (vegetation.py:155-159): Brent's bounded search.  It starts at the golden
\* section point of the bounds and moves by parabolic interpolation through
\* the three best points when the parabola is acceptable, by golden section
\* otherwise, until the bracket [a, b] is within the tolerance around xf.
\* Comparisons with nan are false.  Angles are in 1e-6 rad.
\*
\* The search is run in 1e-6 arithmetic.  Away from the minimum it takes the
\* branches the float search takes; within the resolution of the minimum the
\* objective is flat in 1e-6, so the returned phi agrees with the float
\* result to about 1e-6 and the returned angle to about 2e-3 rad, and the
\* number of passes is that of the fixed-point run.

\* 0.5 * (3 - sqrt(5))
GoldenMean == 381966
\* sqrt_eps * |xf| + xatol / 3 with the default xatol = 1e-5, and twice it
Tol1 == 3
Tol2 == 6
\* the default maxiter
MaxFun == 500

\* the objective of vegetation.py:156:  - self._view_factor_calc(angle, d)
Objective(c) == IF IsFinite(c.phi) THEN Fin(-c.phi.v) ELSE NaN

\* fu <= fx
Leq(a, b) == IsFinite(a) /\ IsFinite(b) /\ a.v <= b.v
\* np.sign(v) + (v == 0)
SignNz(v) == IF v < 0 THEN -1 ELSE 1

\* The parabola through (fulc, ffulc), (nfc, fnfc), (xf, fx), with the
\* differences of x taken relative to the larger of them (D) and those of f
\* relative to the larger of them:  r, q, then p and q = 2 (q - r), p's
\* sign turned when q > 0, q = |q|.
ParabolaPQ(e1, e2, r, q) == [p |-> Mul(e2, q) - Mul(e1, r), q |-> 2 * (q - r)]
ParabolaTurn(pq, D) ==
    [p |-> Mul(IF pq.q > 0 THEN -pq.p ELSE pq.p, D), q |-> Abs(pq.q)]
ParabolaRel(e1, e2, g1, g2, D) ==
    ParabolaTurn(ParabolaPQ(e1, e2, Mul(e1, g1), Mul(e2, g2)), D)
ParabolaOf(dx1, dx2, df1, df2, D, F) ==
    IF D = 0 \/ F = 0 THEN [p |-> 0, q |-> 0]
    ELSE ParabolaRel(Quot(dx1, D), Quot(dx2, D), Quot(df1, F), Quot(df2, F), D)
ParabolaDiffs(dx1, dx2, df1, df2) ==
    ParabolaOf(dx1, dx2, df1, df2, Max(Abs(dx1), Abs(dx2)), Max(Abs(df1), Abs(df2)))
Parabola(s) ==
    ParabolaDiffs(s.xf - s.nfc, s.xf - s.fulc, s.fx.v - s.ffulc.v, s.fx.v - s.fnfc.v)

\* the parabola is acceptable:  |p| < |0.5 q r|,  p > q (a - xf),  p < q (b - xf)
Acceptable(s, pq) ==
    /\ Abs(pq.p) < Abs(Div(Mul(pq.q, s.e), 2))
    /\ pq.p > Mul(pq.q, s.a - s.xf)
    /\ pq.p < Mul(pq.q, s.b - s.xf)

\* the parabolic step: rat = p / q, pulled to tol1 when x would come within
\* tol2 of a bound; e takes the step before
ParabolicRat(s, rat) ==
    IF (s.xf + rat - s.a) < Tol2 \/ (s.b - (s.xf + rat)) < Tol2
    THEN Tol1 * SignNz(s.xm - s.xf) ELSE rat
ParabolicMove(s, pq) == [e |-> s.rat, rat |-> ParabolicRat(s, Quot(pq.p, pq.q))]

\* the golden-section step into the larger part of the bracket
GoldenE(s) == IF s.xf >= s.xm THEN s.a - s.xf ELSE s.b - s.xf
GoldenMove(s) == [e |-> GoldenE(s), rat |-> Mul(GoldenMean, GoldenE(s))]

FitMove(s, pq) == IF Acceptable(s, pq) THEN ParabolicMove(s, pq) ELSE GoldenMove(s)
\* one pass of the loop up to the choice of the step
Move(s) ==
    IF Abs(s.e) > Tol1
    THEN IF IsFinite(s.fx) /\ IsFinite(s.ffulc) /\ IsFinite(s.fnfc)
         THEN FitMove(s, Parabola(s))
         ELSE GoldenMove(s)
    ELSE GoldenMove(s)

\* x = xf + si * max(|rat|, tol1)
NextPoint(s, mv) == s.xf + SignNz(mv.rat) * Max(Abs(mv.rat), Tol1)

\* the bookkeeping after f(x) = fu was evaluated (c: what _view_factor_calc
\* returned at x)
Accepted(s, mv, x, c) ==
    [s EXCEPT !.a = IF x >= s.xf THEN s.xf ELSE s.a,
              !.b = IF x >= s.xf THEN s.b ELSE s.xf,
              !.fulc = s.nfc, !.ffulc = s.fnfc,
              !.nfc = s.xf, !.fnfc = s.fx,
              !.xf = x, !.fx = Objective(c), !.p = c.p,
              !.fu = Objective(c), !.e = mv.e, !.rat = mv.rat,
              !.num = s.num + 1, !.store = c.store, !.ev = c.ev]
Rejected(s, mv, x, c) ==
    [s EXCEPT !.a = IF x < s.xf THEN x ELSE s.a,
              !.b = IF x < s.xf THEN s.b ELSE x,
              !.fulc = IF Leq(Objective(c), s.fnfc) \/ s.nfc = s.xf THEN s.nfc
                       ELSE IF Leq(Objective(c), s.ffulc) \/ s.fulc = s.xf
                               \/ s.fulc = s.nfc
                            THEN x ELSE s.fulc,
              !.ffulc = IF Leq(Objective(c), s.fnfc) \/ s.nfc = s.xf THEN s.fnfc
                        ELSE IF Leq(Objective(c), s.ffulc) \/ s.fulc = s.xf
                                \/ s.fulc = s.nfc
                             THEN Objective(c) ELSE s.ffulc,
              !.nfc = IF Leq(Objective(c), s.fnfc) \/ s.nfc = s.xf THEN x ELSE s.nfc,
              !.fnfc = IF Leq(Objective(c), s.fnfc) \/ s.nfc = s.xf
                       THEN Objective(c) ELSE s.fnfc,
              !.fu = Objective(c), !.e = mv.e, !.rat = mv.rat,
              !.num = s.num + 1, !.store = c.store, !.ev = c.ev]
\* xm = 0.5 * (a + b); flag = 1 when the evaluations are used up
Closed(s) ==
    [s EXCEPT !.xm = Div(s.a + s.b, 2),
              !.flag = IF s.num >= MaxFun THEN 1 ELSE s.flag]
Evaluated(s, mv, x, c) ==
    Closed(IF Leq(Objective(c), s.fx) THEN Accepted(s, mv, x, c)
           ELSE Rejected(s, mv, x, c))

SearchAt(s, mv, x, id, inst, d) ==
    Evaluated(s, mv, x, ViewFactorCalc(After(s), id, inst, x, d))
SearchMove(s, mv, id, inst, d) == SearchAt(s, mv, NextPoint(s, mv), id, inst, d)
\* one pass of the loop
SearchStep(s, id, inst, d) == SearchMove(s, Move(s), id, inst, d)

\* the state before the loop: f is evaluated at the golden section point
SearchInit(x, c) ==
    [a |-> 0, b |-> Pi, fulc |-> x, nfc |-> x, xf |-> x, rat |-> 0, e |-> 0,
     fx |-> Objective(c), ffulc |-> Objective(c), fnfc |-> Objective(c),
     fu |-> Fin(0), p |-> c.p, xm |-> Div(Pi, 2), num |-> 1, flag |-> 0,
     store |-> c.store, ev |-> c.ev]
SearchStart(m, id, inst, d) ==
    SearchInit(Mul(GoldenMean, Pi), ViewFactorCalc(m, id, inst, Mul(GoldenMean, Pi), d))

\* while abs(xf - xm) > tol2 - 0.5 * (b - a), unless flag = 1 broke the loop
Running(s) == s.flag = 0 /\ 2 * Abs(s.xf - s.xm) > 2 * Tol2 - (s.b - s.a)

RECURSIVE Search(_, _, _, _)
\* a pass is finished before the next is begun
SearchNext(next, id, inst, d) ==
    IF next.num >= 0 /\ Len(next.ev) >= 0 THEN Search(next, id, inst, d) ELSE next

Search(s, id, inst, d) ==
    IF Running(s) THEN SearchNext(SearchStep(s, id, inst, d), id, inst, d) ELSE s

\* what view_factor can see of the OptimizeResult: fun, x, success (flag 2
\* when a nan was met), and the path length at x
SearchResult(s) ==
    [fun |-> s.fx, x |-> s.xf, p |-> s.p,
     success |-> s.flag = 0 /\ IsFinite(s.fx) /\ IsFinite(s.fu),
     store |-> s.store, ev |-> s.ev]

MinimizeScalar(m, id, inst, d) ==
    SearchResult(Search(SearchStart(m, id, inst, d), id, inst, d))

\* view_factor's return statement (line 160):  return -res.fun, res.x
\* res.success is not looked at.
ViewFactorReturn(res) ==
    [out |-> "ok",
     phi |-> IF IsFinite(res.fun) THEN Fin(-res.fun.v) ELSE NaN,
     angle |-> res.x, success |-> res.success, p |-> res.p,
     store |-> res.store, ev |-> res.ev]

\* view_factor (vegetation.py:135-160), every read of self.flame_length made
\* through the memoizer
ViewFactorThreaded(m, id, inst, d) == ViewFactorReturn(MinimizeScalar(m, id, inst, d))

\* The same search on the flame lengths and sites the instances of this
\* model produce, evaluated once: for flame length L the search is run on an
\* instance whose flame_length is already in the dict with value L.
FlameLengthValues ==
    {FlameLengthFormula([cls |-> x[1]],
                        RateOfSpreadFormula([cls |-> x[1], site_slope |-> x[2], fdi |-> x[4]])) :
        x \in Models}
SettledInst(site_slope, receiver_height) ==
    [cls |-> "Forest", addr |-> 0, site_slope |-> site_slope,
     receiver_height |-> receiver_height, fdi |-> NaN]
SettledMemo(L) ==
    [store |-> (Key("flame_length", SettledInst(0, 0)) :> [val |-> L, owner |-> 0]),
     ev |-> <<>>]
ViewFactorTable ==
    [a \in FlameLengthValues \X {<<x[2], x[3]>> : x \in Models} \X Distances |->
        ViewFactorThreaded(SettledMemo(a[1]), 0, SettledInst(a[2][1], a[2][2]), a[3])]
        @@ <<>>

\* view_factor once its first read r of self.flame_length has returned.  When
\* a second read returns the same and changes nothing, so does every later
\* one, and the search is the tabulated one.
ViewFactorAfter(r, m, id, inst, d) ==
    IF /\ ReadFl(After(r), id, inst) = r
       /\ <<r.val, <<inst.site_slope, inst.receiver_height>>, d>> \in DOMAIN ViewFactorTable
    THEN [ViewFactorTable[<<r.val, <<inst.site_slope, inst.receiver_height>>, d>>]
            EXCEPT !.store = r.store, !.ev = r.ev]
    ELSE ViewFactorThreaded(m, id, inst, d)

ViewFactor(m, id, inst, d) == ViewFactorAfter(ReadFl(m, id, inst), m, id, inst, d)

-----------------------------------------------------------------------------
\* transmittance_factor (vegetation.py:162-193).

\* _calculation_coefficients (lines 162-168); row n is in units of
\* 1e-7, 1e-9, 1e-11, 1e-13 and 1e-16.
CalcCoeff(n) ==
    CASE n = 0 -> <<14860000, -20030, 468, -605200>>
      [] n = 1 -> <<12250000, -59000, 1660, -1759000>>
      [] n = 2 -> <<-14890000, 68930, -1922, 2092000>>
      [] n = 3 -> <<8381000, -32830, 1051, -1166000>>
      [] n = 4 -> <<-16850000, 76370, -2085, 2350000>>

\* lines 179-185: a_n = sum_k [1, ambient, flame, humidity][k] * C[n][k]
A(n) ==
    CalcCoeff(n)[1] + CalcCoeff(n)[2] * ambient_temperature
        + CalcCoeff(n)[3] * flame_temperature
        + Div(CalcCoeff(n)[4] * relative_humidity, 100)
ATab == [n \in 0..4 |-> A(n)]

\* A path length without the factor 0.5: the variant against which the
\* agreement of the two path lengths is told apart.
TauPathLengthFull(d, L, x) == CmToUm(d) - Mul(L, Cos(x))

\* line 187: separation_distance - 0.5 * self.flame_length * np.cos(angle),
\* in 1e-6 m
TauPathLength(d, L, x) == CmToUm(d) - Div(Mul(L, Cos(x)), 2)

\* lines 189-191: tau = sum_n a_n * path_length^n, in 1e-6, for a path
\* length of p (1e-6 m).  With q = path_length / 100 the sum is
\* sum_n (a_n * 100^n) * q^n, whose coefficients are all within 1.
TauHorner(q) ==
    Div(ATab[0], 10)
        + Mul(q, Div(ATab[1], 10)
            + Mul(q, Div(ATab[2], 10)
                + Mul(q, Div(ATab[3], 10) + Mul(q, Div(ATab[4], 100)))))
TauPoly(p) == TauHorner(Div(p, 100))

\* transmittance_factor once its read r of self.flame_length has returned
TransmittanceOf(r, x, d) ==
    [out |-> "ok",
     tau |-> IF IsFinite(r.val)
             THEN Fin(TauPoly(TauPathLength(d, Um(r.val), x))) ELSE NaN,
     p |-> IF IsFinite(r.val) THEN Fin(TauPathLength(d, Um(r.val), x)) ELSE NaN,
     angle |-> x, d |-> d,
     store |-> r.store, ev |-> r.ev]

TransmittanceFactor(m, id, inst, x, d) == TransmittanceOf(ReadFl(m, id, inst), x, d)

-----------------------------------------------------------------------------
\* radiant_heat_flux (vegetation.py:64-98).

\* flame_emissivity * sigma * flame_temperature**4, in 1e-3 kW/m^2
Emission ==
    Div(Div(Div(Div(sigma * flame_temperature * flame_temperature, 1000)
                * flame_temperature, 1000) * flame_temperature, 1000)
        * flame_emissivity, 1000)

\* lines 90-96: phi * epsilon * sigma * T**4 * tau
FluxProduct(phi, tau) ==
    IF IsFinite(phi) /\ IsFinite(tau)
    THEN Fin(Mul(Mul(Emission, phi.v), tau.v))
    ELSE NaN

\* lines 90-96, given what view_factor and transmittance_factor returned
RadiantHeatReturn(vf, tf) ==
    [res |-> [phi |-> vf.phi, angle |-> vf.angle, success |-> vf.success,
              tau |-> tf.tau, flux |-> FluxProduct(vf.phi, tf.tau),
              pvf |-> vf.p, ptau |-> tf.p, tauAngle |-> tf.angle, tauD |-> tf.d],
     store |-> tf.store, ev |-> tf.ev]

\* line 88: tau = self.transmittance_factor(angle, separation_distance)
RadiantHeatTau(vf, id, inst, d) ==
    RadiantHeatReturn(vf, TransmittanceFactor(After(vf), id, inst, vf.angle, d))

\* the inner function radiant_heat (lines 85-96) for one distance; line 87:
\* phi, angle = self.view_factor(separation_distance)
RadiantHeat(m, id, inst, d) == RadiantHeatTau(ViewFactor(m, id, inst, d), id, inst, d)

\* np.vectorize (line 84) without otypes: an input of size 0 is refused with
\* ValueError; otherwise the function is called on the first element to learn
\* the output type, and then on every element in order.
MapStep(acc, r) ==
    [out |-> "ok", res |-> Append(acc.res, r.res), store |-> r.store, ev |-> r.ev]

RECURSIVE MapHeat(_, _, _, _, _)
\* element i is finished before element i + 1 is started
MapNext(next, id, inst, ds, i) ==
    IF Len(next.ev) >= 0 THEN MapHeat(next, id, inst, ds, i + 1) ELSE next

MapHeat(acc, id, inst, ds, i) ==
    IF i > Len(ds) THEN acc
    ELSE MapNext(MapStep(acc, RadiantHeat(After(acc), id, inst, ds[i])), id, inst, ds, i)

MapStart(probe) == [out |-> "ok", res |-> <<>>, store |-> probe.store, ev |-> probe.ev]

Vectorize(m, id, inst, ds) ==
    IF Len(ds) = 0
    THEN [out |-> "ValueError", res |-> <<>>, store |-> m.store, ev |-> m.ev]
    ELSE MapHeat(MapStart(RadiantHeat(m, id, inst, ds[1])), id, inst, ds, 1)

-----------------------------------------------------------------------------
\* The caller's record of a call.

NoRes == [phi |-> NaN, angle |-> 0, success |-> TRUE, tau |-> NaN, flux |-> NaN,
          pvf |-> NaN, ptau |-> NaN, tauAngle |-> 0, tauD |-> 0]

\* op: the call; id: the instance; mdl: the class and arguments of a
\* construction; ds: the separation distances passed (arr: as an array);
\* out: "ok" or the exception raised; val, owner: the value a
\* property read returned and the instance whose evaluation produced it;
\* fresh: no read of flame_length had been made on the instance before;
\* res: the results of view_factor, transmittance_factor or radiant_heat_flux;
\* ev: the formula evaluations and dict writes the call made, in order.
Op(op, id, ds, arr, out, val, owner, fresh, res, ev) ==
    [op |-> op, id |-> id, mdl |-> <<>>, ds |-> ds, arr |-> arr, out |-> out,
     val |-> val, owner |-> owner, fresh |-> fresh, res |-> res, ev |-> ev]

-----------------------------------------------------------------------------
Init ==
    /\ insts = <<>>
    /\ store = <<>>
    /\ nextId = 1
    /\ evals = [i \in Ids |-> [fl |-> 0, ros |-> 0]]
    /\ reads = [i \in Ids |-> FALSE]
    /\ lastOp = Op("none", 0, <<>>, FALSE, "ok", NaN, 0, FALSE, <<>>, <<>>)

FreeAddrs == Addrs \ {insts[i].addr : i \in DOMAIN insts}

Constructed(mdl, r) ==
    /\ insts' = IF r.out = "ok" THEN (nextId :> r.inst) @@ insts ELSE insts
    /\ lastOp' = [Op("new", nextId, <<>>, FALSE, r.out, NaN, 0, FALSE, <<>>, <<>>)
                    EXCEPT !.mdl = mdl]

\* Forest(site_slope, receiver_height, fdi) / Woodland(...): the allocator
\* places the object at any address no live object holds.
New(mdl, addr) ==
    /\ nextId <= MaxInst
    /\ addr \in FreeAddrs
    /\ Constructed(mdl, ForestWoodlandInit(mdl[1], mdl[2], mdl[3], mdl[4], addr))
    /\ nextId' = nextId + 1
    /\ UNCHANGED <<store, evals, reads>>

\* The last reference to an instance goes away and the object is freed; the
\* dict `store` is not told.  The counters kept for the instance are dropped
\* with it: nothing can be read on it any more.
Discard(id) ==
    /\ id \in DOMAIN insts
    /\ insts' = [i \in DOMAIN insts \ {id} |-> insts[i]]
    /\ lastOp' = Op("discard", id, <<>>, FALSE, "ok", NaN, 0, FALSE, <<>>, <<>>)
    /\ evals' = [evals EXCEPT ![id] = [fl |-> 0, ros |-> 0]]
    /\ reads' = [reads EXCEPT ![id] = FALSE]
    /\ UNCHANGED <<store, nextId>>

\* what a call on `id` that ended as r leaves behind
Returned(id, r, op) ==
    /\ store' = r.store
    /\ evals' = Bump(id, r.ev)
    /\ lastOp' = op
    /\ UNCHANGED <<insts, nextId>>

\* inst.flame_length
ReadFlameLengthOf(id, r) ==
    /\ Returned(id, r, Op("flame_length", id, <<>>, FALSE, "ok", r.val, r.owner,
                          ~reads[id], <<>>, r.ev))
    /\ reads' = [reads EXCEPT ![id] = TRUE]

ReadFlameLength(id) ==
    /\ id \in DOMAIN insts
    /\ ReadFlameLengthOf(id, ReadFl([store |-> store, ev |-> <<>>], id, insts[id]))

\* inst.rate_of_spread
ReadRateOfSpreadOf(id, r) ==
    /\ Returned(id, r, Op("rate_of_spread", id, <<>>, FALSE, "ok", r.val, r.owner,
                          FALSE, <<>>, r.ev))
    /\ UNCHANGED reads

ReadRateOfSpread(id) ==
    /\ id \in DOMAIN insts
    /\ ReadRateOfSpreadOf(id, ReadRos([store |-> store, ev |-> <<>>], id, insts[id]))

\* inst.view_factor(d)
CallViewFactorOf(id, d, r) ==
    /\ Returned(id, r, Op("view_factor", id, <<d>>, FALSE, r.out, NaN, 0, ~reads[id],
                          <<[NoRes EXCEPT !.phi = r.phi, !.angle = r.angle,
                                          !.success = r.success, !.pvf = r.p]>>,
                          r.ev))
    /\ reads' = [reads EXCEPT ![id] = TRUE]

CallViewFactor(id, d) ==
    /\ id \in DOMAIN insts
    /\ CallViewFactorOf(id, d, ViewFactor([store |-> store, ev |-> <<>>], id, insts[id], d))

\* inst.transmittance_factor(angle, d)
CallTransmittanceFactorOf(id, d, r) ==
    /\ Returned(id, r, Op("transmittance_factor", id, <<d>>, FALSE, r.out, NaN, 0,
                          ~reads[id],
                          <<[NoRes EXCEPT !.tau = r.tau, !.ptau = r.p,
                                          !.tauAngle = r.angle, !.tauD = r.d]>>,
                          r.ev))
    /\ reads' = [reads EXCEPT ![id] = TRUE]

CallTransmittanceFactor(id, k, d) ==
    /\ id \in DOMAIN insts
    /\ CallTransmittanceFactorOf(id, d,
            TransmittanceFactor([store |-> store, ev |-> <<>>], id, insts[id], k, d))

\* inst.radiant_heat_flux(ds): ds an array of distances (arr) or the one
\* element of ds as a scalar
CallRadiantHeatFluxOf(id, ds, arr, r) ==
    /\ Returned(id, r, Op("radiant_heat_flux", id, ds, arr, r.out, NaN, 0, ~reads[id],
                          r.res, r.ev))
    /\ reads' = [reads EXCEPT ![id] = @ \/ r.out = "ok"]

CallRadiantHeatFlux(id, ds, arr) ==
    /\ id \in DOMAIN insts
    /\ CallRadiantHeatFluxOf(id, ds, arr,
            Vectorize([store |-> store, ev |-> <<>>], id, insts[id], ds))

\* the arrays of separation distances a caller passes: the empty array and
\* the first n points of a line that alternates 20 m and 3 m
Transect == [i \in 1..MaxLen |-> IF i % 2 = 1 THEN 2000 ELSE 300]
DistanceArrays == {SubSeq(Transect, 1, n) : n \in 0..MaxLen}
\* the angles (1e-6 rad) a caller passes to transmittance_factor: 5 pi / 12
CallerAngles == {1308997}

Next ==
    \/ \E mdl \in Models, addr \in Addrs : New(mdl, addr)
    \/ \E id \in Ids : Discard(id)
    \/ \E id \in Ids : ReadFlameLength(id)
    \/ \E id \in Ids : ReadRateOfSpread(id)
    \/ \E id \in Ids, d \in Distances : CallViewFactor(id, d)
    \/ \E id \in Ids, k \in CallerAngles, d \in Distances : CallTransmittanceFactor(id, k, d)
    \/ \E id \in Ids, d \in Distances : CallRadiantHeatFlux(id, <<d>>, FALSE)
    \/ \E id \in Ids, ds \in DistanceArrays : CallRadiantHeatFlux(id, ds, TRUE)

Spec == Init /\ [][Next]_vars

-----------------------------------------------------------------------------
\* Properties.

\* the calls that read flame_length
ReadingOps == {"flame_length", "view_factor", "transmittance_factor", "radiant_heat_flux"}
\* the instance the last call was made on
Self == insts[lastOp.id]
\* the dict as the last call left it, with an empty log
Now == [store |-> store, ev |-> <<>>]
\* position of the first e in the log ev, 0 if there is none
First(ev, e) ==
    IF \E i \in 1..Len(ev) : ev[i] = e
    THEN CHOOSE i \in 1..Len(ev) : ev[i] = e /\ \A j \in 1..(i - 1) : ev[j] # e
    ELSE 0

\* C1: for every instance and every sequence of direct and indirect reads,
\* _flame_length is evaluated at most once and _rate_of_spread at most once
\* for that instance, and a call made after flame_length was first read on
\* the instance evaluates _flame_length no more.
C1_EvaluatedAtMostOnce ==
    /\ \A i \in Ids : evals[i].fl <= 1 /\ evals[i].ros <= 1
    /\ (lastOp.op \in ReadingOps /\ lastOp.out = "ok" /\ ~lastOp.fresh)
            => Count(lastOp.ev, "call:_flame_length") = 0

\* C1 happens: both formulas were evaluated for an instance, and an array
\* call of radiant_heat_flux made afterwards on it returned.
C1_Witness ==
    /\ lastOp.op = "radiant_heat_flux" /\ lastOp.out = "ok" /\ Len(lastOp.ds) = MaxLen
    /\ ~lastOp.fresh
    /\ evals[lastOp.id].fl = 1 /\ evals[lastOp.id].ros = 1

\* C2: the cache is keyed by instance identity: a read of flame_length or
\* rate_of_spread never returns a value computed and stored for another
\* instance, and the cache holds no entry of an instance that is gone.
C2_KeyedByInstance ==
    /\ (lastOp.op \in {"flame_length", "rate_of_spread"}) => lastOp.owner = lastOp.id
    /\ \A key \in DOMAIN store : store[key].owner \in DOMAIN insts

\* C3: no instance with a negative site_slope, a negative receiver_height
\* or a non-finite fdi is ever produced; such a construction fails with
\* InvalidParameter.
C3_InvalidRejected ==
    /\ \A i \in DOMAIN insts :
            /\ insts[i].site_slope >= 0
            /\ insts[i].receiver_height >= 0
            /\ IsFinite(insts[i].fdi)
    /\ (lastOp.op = "new" /\ (lastOp.mdl[2] < 0 \/ lastOp.mdl[3] < 0 \/ ~IsFinite(lastOp.mdl[4])))
            => lastOp.out = "InvalidParameter"

\* the flame length the last call read
FlameLengthRead == store[Key("flame_length", Self)].val

\* C4: when a separation distance is below half the flame length,
\* view_factor and radiant_heat_flux raise InvalidGeometry and return no
\* number.
C4_InvalidGeometryRaised ==
    (/\ lastOp.op \in {"view_factor", "radiant_heat_flux"}
     /\ Len(lastOp.ds) > 0
     /\ IsFinite(FlameLengthRead)
     /\ \E i \in 1..Len(lastOp.ds) : 2 * lastOp.ds[i] < Cm(FlameLengthRead))
        => lastOp.out = "InvalidGeometry"

\* C5: radiant_heat_flux on an array returns an array of the same shape whose
\* element i is what the scalar call with d[i] returns on the same model.
C5_ElementwiseAsScalar ==
    (lastOp.op = "radiant_heat_flux" /\ lastOp.arr) =>
        /\ lastOp.out = "ok"
        /\ Len(lastOp.res) = Len(lastOp.ds)
        /\ \A i \in 1..Len(lastOp.ds) :
                lastOp.res[i] = Vectorize(Now, lastOp.id, Self, <<lastOp.ds[i]>>).res[1]

\* C6: when the search over the angle did not converge, view_factor and
\* radiant_heat_flux surface OptimizationFailure and return no estimate.
C6_FailureSurfaced ==
    (/\ lastOp.op \in {"view_factor", "radiant_heat_flux"}
     /\ \E i \in 1..Len(lastOp.res) : ~lastOp.res[i].success)
        => lastOp.out = "OptimizationFailure"

\* C7: for each distance d, radiant_heat_flux takes (phi, angle) from
\* view_factor(d), evaluates tau = transmittance_factor(angle, d) with that
\* angle and that d, and returns phi * flame_emissivity * sigma *
\* flame_temperature^4 * tau; tau's path length is the path length of the
\* view factor at that angle.
C7_FluxComposition ==
    (lastOp.op = "radiant_heat_flux" /\ lastOp.out = "ok") =>
        \A i \in 1..Len(lastOp.ds) :
            /\ lastOp.res[i].phi = ViewFactor(Now, lastOp.id, Self, lastOp.ds[i]).phi
            /\ lastOp.res[i].angle = ViewFactor(Now, lastOp.id, Self, lastOp.ds[i]).angle
            /\ lastOp.res[i].tauAngle = lastOp.res[i].angle
            /\ lastOp.res[i].tauD = lastOp.ds[i]
            /\ lastOp.res[i].tau =
                    TransmittanceFactor(Now, lastOp.id, Self, lastOp.res[i].angle,
                                        lastOp.ds[i]).tau
            /\ lastOp.res[i].ptau = lastOp.res[i].pvf
            /\ lastOp.res[i].flux =
                    IF IsFinite(lastOp.res[i].phi) /\ IsFinite(lastOp.res[i].tau)
                    THEN Fin(Mul(Mul(Emission, lastOp.res[i].phi.v),
                                 lastOp.res[i].tau.v))
                    ELSE NaN

\* C7 happens: an array call returned finite, positive fluxes for distances
\* on both sides of half the flame length.
C7_Witness ==
    /\ lastOp.op = "radiant_heat_flux" /\ lastOp.out = "ok" /\ lastOp.arr
    /\ Len(lastOp.ds) = MaxLen
    /\ \A i \in 1..Len(lastOp.res) :
            IsFinite(lastOp.res[i].flux) /\ lastOp.res[i].flux.v > 0
    /\ IsFinite(FlameLengthRead)
    /\ \E i \in 1..Len(lastOp.ds) : 2 * lastOp.ds[i] < Cm(FlameLengthRead)
    /\ \E i \in 1..Len(lastOp.ds) : 2 * lastOp.ds[i] > Cm(FlameLengthRead)

\* C8: rate_of_spread is 0.0012 * fdi * surface_fuel_load * exp(0.069 *
\* site_slope) and flame_length is (13 * rate_of_spread + 0.24 *
\* overall_fuel_load) / 2 of the same instance; Forest with slope 0, height 0
\* and fdi 50 has rate_of_spread 1.5 and flame_length 13.95.
C8_FormulaValues ==
    /\ lastOp.op = "rate_of_spread" => lastOp.val = RateOfSpreadFormula(Self)
    /\ lastOp.op = "flame_length" =>
            lastOp.val = FlameLengthFormula(Self, RateOfSpreadFormula(Self))
    /\ (/\ lastOp.op \in {"rate_of_spread", "flame_length"}
        /\ Self.cls = "Forest" /\ Self.site_slope = 0 /\ Self.receiver_height = 0
        /\ Self.fdi = Fin(50))
            => lastOp.val = IF lastOp.op = "rate_of_spread" THEN Fin(15000) ELSE Fin(139500)

\* C9: a cached flame_length or rate_of_spread of an instance is the value
\* its formula yields from the instance's site_slope, fdi and fuel loads.
C9_NeverStale ==
    \A i \in DOMAIN insts :
        /\ Key("rate_of_spread", insts[i]) \in DOMAIN store =>
                store[Key("rate_of_spread", insts[i])].val = RateOfSpreadFormula(insts[i])
        /\ Key("flame_length", insts[i]) \in DOMAIN store =>
                store[Key("flame_length", insts[i])].val =
                    FlameLengthFormula(insts[i], RateOfSpreadFormula(insts[i]))

\* C10: the first read of flame_length on a fresh instance, direct or made by
\* a method, caches rate_of_spread before it caches flame_length, and both
\* are cached afterwards; a later read of rate_of_spread evaluates nothing
\* and returns the value the cached flame_length was computed from.
C10_RateOfSpreadFirst ==
    /\ (lastOp.op \in ReadingOps /\ lastOp.out = "ok" /\ lastOp.fresh) =>
            /\ Key("rate_of_spread", Self) \in DOMAIN store
            /\ Key("flame_length", Self) \in DOMAIN store
            /\ First(lastOp.ev, "store:flame_length") > 0
            /\ First(lastOp.ev, "store:rate_of_spread")
                    < First(lastOp.ev, "store:flame_length")
    /\ (lastOp.op = "rate_of_spread" /\ reads[lastOp.id]) =>
            /\ lastOp.ev = <<>>
            /\ store[Key("flame_length", Self)].val = FlameLengthFormula(Self, lastOp.val)

====
